---- MODULE Spec2Model ----
(***************************************************************************)
(* repo_miner: the fetch-commits and fetch-issues commands.                *)
(*                                                                         *)
(* One run of the command line tool is modelled: main dispatches to        *)
(* fetch_commits or fetch_issues, the fetcher looks the repository up,     *)
(* iterates the paginated collection the API client hands back, builds     *)
(* one record per retained entry and returns a DataFrame, which main       *)
(* writes to the output file.  Every request to the API can fail; the      *)
(* exception is caught nowhere.                                            *)
(*                                                                         *)
(* Optional values (Python None) are sequences of length at most one.      *)
(* Strings whose content matters (commit messages) are sequences of        *)
(* characters.  Time stamps are integers; DayLen of them make a day.       *)
(***************************************************************************)
EXTENDS Integers, Sequences, FiniteSets, TLC

VARIABLES
    command,       \* args.command
    max_commits,   \* args.max_commits (None when --max is not given)
    state,         \* args.state
    max_issues,    \* args.max_issues (None when --max is not given)
    repo_commits,  \* the repository's commits, in the API's order
    repo_issues,   \* the repository's issue entries (pull requests included)
    filters,       \* whether the collaborator applies the state filter itself
    pc,            \* position of the run
    commits,       \* fetch_commits: commits (after the slice)
    issues,        \* fetch_issues: issues, as get_issues returned them
    idx,           \* index of the next entry the loop asks for
    fetched,       \* pages of the collection fetched so far
    dicts,         \* fetch_commits: dicts
    records,       \* fetch_issues: records
    df,            \* the table the fetcher returned to main (None before)
    outfile,       \* the lines of the output file (None while not written)
    requests       \* the requests issued to the API, in order

vars == <<command, max_commits, state, max_issues, repo_commits, repo_issues,
          filters, pc, commits, issues, idx, fetched, dicts, records, df,
          outfile, requests>>

-----------------------------------------------------------------------------
(* Bounds of the model *)

MaxCommits == 2
MaxMsgLen == 3
MaxIssues == 3
MaxCap == 3
MaxCreated == 2
MaxDur == 9
PerPage == 2
DayLen == 4

-----------------------------------------------------------------------------
(* Values *)

None == <<>>
Some(v) == <<v>>
Val(o) == o[1]

Min(a, b) == IF a <= b THEN a ELSE b

LF == "\n"
Chars == {"a", "b", LF}

SeqsUpTo(S, n) == UNION {[1..k -> S] : k \in 0..n}

Caps == {None} \cup {Some(c) : c \in 0..MaxCap}

StateChoices == {"all", "open", "closed"}

CommitColumns == <<"sha", "author", "email", "date", "message">>

IssueColumns == <<"id", "number", "title", "user", "state", "created_at",
                  "closed_at", "comments", "open_duration_days">>

-----------------------------------------------------------------------------
(* The collaborator's data *)

\* A commit as the API client exposes it: sha, commit.author, commit.message.
Commit(i, msg) ==
    [sha |-> i,
     commit |-> [author |-> [name |-> "Alice", email |-> "a@example.com", date |-> 0],
                 message |-> msg]]

MkCommits(msgs) == [i \in 1..Len(msgs) |-> Commit(i, msgs[i])]

\* An issue entry as the API client exposes it; pull_request is set only on
\* entries that are pull requests.
Issue(i, k) ==
    [id |-> i, number |-> 100 + i, title |-> "Issue", user |-> "alice",
     state |-> k.state, created_at |-> k.created_at, closed_at |-> k.closed_at,
     comments |-> 0, pull_request |-> k.pull_request]

MkIssues(kinds) == [i \in 1..Len(kinds) |-> Issue(i, kinds[i])]

\* Messages of the longer commit lists: one line, or a subject and a body.
PlainMessages == {<<"a">>, <<"a", LF, "b">>}

\* Any message of up to MaxMsgLen characters.
AllMessages == SeqsUpTo(Chars, MaxMsgLen)

CommitLists ==
    {MkCommits(m) : m \in SeqsUpTo(PlainMessages, MaxCommits)}
        \cup {MkCommits(<<m>>) : m \in AllMessages}

\* Entries of the longer issue lists: open or closed after one day, issue or
\* pull request.
PlainKinds ==
    {[state |-> "open", created_at |-> 0, closed_at |-> None, pull_request |-> p]
        : p \in {None, Some("pr")}}
    \cup
    {[state |-> "closed", created_at |-> 0, closed_at |-> Some(DayLen), pull_request |-> p]
        : p \in {None, Some("pr")}}

\* Any entry: created at 0..MaxCreated, still open or closed up to MaxDur later.
AllKinds ==
    {[state |-> s, created_at |-> c, closed_at |-> cl, pull_request |-> p] :
        s \in {"open", "closed"}, c \in 0..MaxCreated,
        cl \in {None} \cup {Some(c0 + d) : c0 \in 0..MaxCreated, d \in 0..MaxDur},
        p \in {None, Some("pr")}}

TimedKinds == {k \in AllKinds : k.closed_at = None \/ Val(k.closed_at) >= k.created_at}

IssueLists ==
    {MkIssues(k) : k \in SeqsUpTo(PlainKinds, MaxIssues)}
        \cup {MkIssues(<<k>>) : k \in TimedKinds}

\* repo.get_issues(state=state): the entries in the collaborator's order,
\* restricted to the requested state when the collaborator filters.
get_issues(all, st, filtering) ==
    IF st = "all" \/ ~filtering
    THEN all
    ELSE SelectSeq(all, LAMBDA i : i.state = st)

-----------------------------------------------------------------------------
(* fetch_commits *)

SliceOffByOne(seq, cap) ==
    IF cap = None THEN seq ELSE SubSeq(seq, 1, Min(Val(cap) + 1, Len(seq)))

\* commits[:max_commits] when max_commits is not None
Slice(seq, cap) ==
    IF cap = None THEN seq ELSE SubSeq(seq, 1, Min(Val(cap), Len(seq)))

RECURSIVE UpToLF(_)
UpToLF(s) ==
    IF s = <<>> THEN <<>>
    ELSE IF Head(s) = LF THEN <<>>
    ELSE <<Head(s)>> \o UpToLF(Tail(s))

FirstLineWhole(s) == s

\* message.split("\n", 1)[0]
FirstLine(s) == UpToLF(s)

CommitRecord(c) ==
    [sha |-> c.sha,
     author |-> c.commit.author.name,
     email |-> c.commit.author.email,
     date |-> c.commit.author.date,
     message |-> FirstLine(c.commit.message)]

\* pd.DataFrame(list of dicts): the columns are the keys of the dicts, so a
\* table built from no dict has no column.
DataFrame(recs, keys) ==
    [columns |-> IF recs = <<>> THEN <<>> ELSE keys, rows |-> recs]

-----------------------------------------------------------------------------
(* fetch_issues *)

CapReachedNotNone(cap, i) == cap # None /\ i >= Val(cap)

\* max_issues and idx >= max_issues   (None and 0 are both falsy)
CapReached(cap, i) == cap # None /\ Val(cap) # 0 /\ i >= Val(cap)

SkipsNothing(issue) == FALSE

\* not (not issue.pull_request)
IsPullRequest(issue) == issue.pull_request # None

DaysRoundedUp(td) == (td + DayLen - 1) \div DayLen

\* timedelta.days
Days(td) == td \div DayLen

IssueRecord(issue) ==
    [id |-> issue.id,
     number |-> issue.number,
     title |-> issue.title,
     user |-> issue.user,
     state |-> issue.state,
     created_at |-> issue.created_at,
     closed_at |-> issue.closed_at,
     comments |-> issue.comments,
     open_duration_days |->
        IF issue.closed_at # None
        THEN Some(Days(Val(issue.closed_at) - issue.created_at))
        ELSE None]

Prepended(recs, r) == <<r>> \o recs

\* records.append(...)
Appended(recs, r) == Append(recs, r)

-----------------------------------------------------------------------------
(* The run *)

InitRun ==
    /\ pc = "dispatch"
    /\ commits = <<>>
    /\ issues = <<>>
    /\ idx = 0
    /\ fetched = 0
    /\ dicts = <<>>
    /\ records = <<>>
    /\ df = None
    /\ outfile = None
    /\ requests = <<>>

Init ==
    /\ InitRun
    /\ \/ /\ command = "fetch-commits"
          /\ max_commits \in Caps
          /\ repo_commits \in CommitLists
          /\ state = "all"
          /\ max_issues = None
          /\ repo_issues = <<>>
          /\ filters = TRUE
       \/ /\ command = "fetch-issues"
          /\ state \in StateChoices
          /\ max_issues \in Caps
          /\ repo_issues \in IssueLists
          /\ filters \in BOOLEAN
          /\ max_commits = None
          /\ repo_commits = <<>>

args == <<command, max_commits, state, max_issues, repo_commits, repo_issues, filters>>

RaiseSalvaged ==
    /\ pc' = "returned"
    /\ df' = Some(IF command = "fetch-commits"
                  THEN DataFrame(dicts, CommitColumns)
                  ELSE DataFrame(records, IssueColumns))

\* An exception raised by a request: nothing in fetch_commits, fetch_issues
\* or main catches it, so the fetcher returns nothing and the command ends.
Raise ==
    /\ pc' = "raised"
    /\ df' = None

Request(kind, page, ok) == [kind |-> kind, page |-> page, ok |-> ok]

\* fetch_commits up to the loop: the client, the repository lookup, the
\* (lazy) commit list and the slice.
FetchCommitsOpen ==
    /\ pc = "dispatch"
    /\ command = "fetch-commits"
    /\ \E ok \in BOOLEAN :
        /\ requests' = Append(requests, Request("get_repo", 0, ok))
        /\ IF ok
           THEN /\ commits' = Slice(repo_commits, max_commits)
                /\ pc' = "commits_loop"
                /\ df' = df
           ELSE /\ Raise
                /\ commits' = commits
    /\ UNCHANGED <<args, issues, idx, fetched, dicts, records, outfile>>

\* fetch_issues up to the loop: the client, the repository lookup and the
\* (lazy) issue list.
FetchIssuesOpen ==
    /\ pc = "dispatch"
    /\ command = "fetch-issues"
    /\ \E ok \in BOOLEAN :
        /\ requests' = Append(requests, Request("get_repo", 0, ok))
        /\ IF ok
           THEN /\ issues' = get_issues(repo_issues, state, filters)
                /\ pc' = "issues_loop"
                /\ df' = df
           ELSE /\ Raise
                /\ issues' = issues
    /\ UNCHANGED <<args, commits, idx, fetched, dicts, records, outfile>>

Listing == IF pc = "commits_loop" THEN commits ELSE issues

\* The loop asks for entry idx and the page holding it is not there yet (the
\* first page is requested even when the collection is empty).
NeedsPage == fetched * PerPage <= idx /\ (idx < Len(Listing) \/ fetched = 0)

\* The iterator of the paginated list requests the next page.
FetchPage ==
    /\ pc \in {"commits_loop", "issues_loop"}
    /\ NeedsPage
    /\ \E ok \in BOOLEAN :
        /\ requests' = Append(requests, Request("page", fetched, ok))
        /\ IF ok
           THEN /\ fetched' = fetched + 1
                /\ UNCHANGED <<pc, df>>
           ELSE /\ Raise
                /\ fetched' = fetched
    /\ UNCHANGED <<args, commits, issues, idx, dicts, records, outfile>>

\* One iteration of the loop of fetch_commits.
CommitsIter ==
    /\ pc = "commits_loop"
    /\ ~NeedsPage
    /\ idx < Len(commits)
    /\ dicts' = Append(dicts, CommitRecord(commits[idx + 1]))
    /\ idx' = idx + 1
    /\ UNCHANGED <<args, pc, commits, issues, fetched, records, df, outfile, requests>>

\* The loop of fetch_commits is over: return pd.DataFrame(dicts).
CommitsReturn ==
    /\ pc = "commits_loop"
    /\ ~NeedsPage
    /\ idx >= Len(commits)
    /\ df' = Some(DataFrame(dicts, CommitColumns))
    /\ pc' = "returned"
    /\ UNCHANGED <<args, commits, issues, idx, fetched, dicts, records, outfile, requests>>

\* One iteration of the loop of fetch_issues that does not break.
IssuesIter ==
    /\ pc = "issues_loop"
    /\ ~NeedsPage
    /\ idx < Len(issues)
    /\ ~CapReached(max_issues, idx)
    /\ records' = IF IsPullRequest(issues[idx + 1])
                  THEN records
                  ELSE Appended(records, IssueRecord(issues[idx + 1]))
    /\ idx' = idx + 1
    /\ UNCHANGED <<args, pc, commits, issues, fetched, dicts, df, outfile, requests>>

\* The iteration that breaks, and the return that follows it.
IssuesBreak ==
    /\ pc = "issues_loop"
    /\ ~NeedsPage
    /\ idx < Len(issues)
    /\ CapReached(max_issues, idx)
    /\ df' = Some(DataFrame(records, IssueColumns))
    /\ pc' = "returned"
    /\ UNCHANGED <<args, commits, issues, idx, fetched, dicts, records, outfile, requests>>

\* The loop of fetch_issues ran out of entries: return pd.DataFrame(records).
IssuesReturn ==
    /\ pc = "issues_loop"
    /\ ~NeedsPage
    /\ idx >= Len(issues)
    /\ df' = Some(DataFrame(records, IssueColumns))
    /\ pc' = "returned"
    /\ UNCHANGED <<args, commits, issues, idx, fetched, dicts, records, outfile, requests>>

\* main: df.to_csv(args.out, index=False): the header line, then one line a row.
ToCsv ==
    /\ pc = "returned"
    /\ outfile' = Some(<<Val(df).columns>> \o Val(df).rows)
    /\ pc' = "done"
    /\ UNCHANGED <<args, commits, issues, idx, fetched, dicts, records, df, requests>>

Next ==
    \/ FetchCommitsOpen
    \/ FetchIssuesOpen
    \/ FetchPage
    \/ CommitsIter
    \/ CommitsReturn
    \/ IssuesIter
    \/ IssuesBreak
    \/ IssuesReturn
    \/ ToCsv

Spec == Init /\ [][Next]_vars

-----------------------------------------------------------------------------
(* Properties *)

Returned == pc \in {"returned", "done"}
CommitsReturned == Returned /\ command = "fetch-commits"
IssuesReturned == Returned /\ command = "fetch-issues"

Rows == Val(df).rows
Columns == Val(df).columns

\* The positions, in the sequence get_issues returned, of the true issues.
TrueIssues == {j \in 1..Len(issues) : issues[j].pull_request = None}
K == Cardinality(TrueIssues)

\* The position in issues of the entry with this id (ids are unique).
Pos(id) == CHOOSE j \in 1..Len(issues) : issues[j].id = id

RECURSIVE OnlyTrueIssues(_)
OnlyTrueIssues(seq) ==
    IF seq = <<>> THEN <<>>
    ELSE IF Head(seq).pull_request = None
         THEN <<Head(seq)>> \o OnlyTrueIssues(Tail(seq))
         ELSE OnlyTrueIssues(Tail(seq))

\* C1: with a cap C given, fetch_issues returns exactly min(K, C) rows, K
\* being the number of true issues in the sequence the collaborator returned:
\* pull requests met while scanning do not consume the cap.
CapCountsOnlyTrueIssues ==
    (IssuesReturned /\ max_issues # None /\ Val(max_issues) >= 1)
        => Len(Rows) = Min(K, Val(max_issues))

\* C2: without a cap, fetch_issues returns exactly K rows, and no row comes
\* from an entry whose pull-request flag is set.
UncappedReturnsTrueIssues ==
    (IssuesReturned /\ max_issues = None)
        => /\ Len(Rows) = K
           /\ \A i \in 1..Len(Rows) :
                \E j \in TrueIssues : issues[j].id = Rows[i].id

UncappedSkipsPullRequest ==
    /\ IssuesReturned
    /\ max_issues = None
    /\ Len(issues) = 3
    /\ issues[1].pull_request = None
    /\ issues[2].pull_request # None
    /\ issues[3].pull_request = None
    /\ Len(Rows) = 2

\* C3: fetch_commits over N commits returns min(N, C) rows when a cap C is
\* given and N rows otherwise, and the rows are the first commits of the
\* collaborator's order, in that order.
CommitsAreFirstInOrder ==
    CommitsReturned
        => /\ Len(Rows) = IF max_commits = None
                          THEN Len(repo_commits)
                          ELSE Min(Len(repo_commits), Val(max_commits))
           /\ \A i \in 1..Len(Rows) : Rows[i].sha = repo_commits[i].sha

CommitsCapped ==
    /\ CommitsReturned
    /\ max_commits = Some(1)
    /\ Len(repo_commits) = 2
    /\ Len(Rows) = 1

\* m is what precedes the first line break of src (all of src when it has none).
IsFirstLineOf(m, src) ==
    /\ \A k \in 1..Len(m) : m[k] # LF
    /\ Len(m) <= Len(src)
    /\ \A k \in 1..Len(m) : m[k] = src[k]
    /\ Len(m) = Len(src) \/ src[Len(m) + 1] = LF

\* C4: the message of every commit row holds no line break and is the part
\* of the source commit's message before its first line break.
MessageIsFirstLine ==
    CommitsReturned
        => \A i \in 1..Len(Rows) :
              IsFirstLineOf(Rows[i].message, commits[i].commit.message)

MessageTruncated ==
    /\ CommitsReturned
    /\ Len(Rows) = 1
    /\ commits[1].commit.message = <<"a", LF, "b">>
    /\ Rows[1].message = <<"a">>

\* C5: in every issue row open_duration_days is present exactly when
\* closed_at is, and is then the number of whole days from created_at to
\* closed_at, the remainder of less than a day dropped.
DurationIsWholeDays ==
    IssuesReturned
        => \A i \in 1..Len(Rows) :
              /\ Rows[i].open_duration_days # None <=> Rows[i].closed_at # None
              /\ Rows[i].closed_at # None
                    => LET d == Val(Rows[i].open_duration_days)
                           diff == Val(Rows[i].closed_at) - Rows[i].created_at
                       IN /\ d * DayLen <= diff
                          /\ diff < (d + 1) * DayLen

DurationTruncated ==
    /\ IssuesReturned
    /\ Len(Rows) = 1
    /\ Rows[1].created_at = 1
    /\ Rows[1].closed_at = Some(2 * DayLen)
    /\ Rows[1].open_duration_days = Some(1)

\* C6: when the collection yields no record, the returned table has no row
\* and still carries the full column set of its record kind.
EmptyTableKeepsColumns ==
    /\ (CommitsReturned /\ Len(repo_commits) = 0)
          => (Len(Rows) = 0 /\ Columns = CommitColumns)
    /\ (IssuesReturned /\ K = 0)
          => (Len(Rows) = 0 /\ Columns = IssueColumns)

\* C7: with the state filter "open" or "closed", the state of every
\* returned row is the requested one, whatever entries the collaborator
\* returns.
RowsMatchStateFilter ==
    (IssuesReturned /\ state \in {"open", "closed"})
        => \A i \in 1..Len(Rows) : Rows[i].state = state

Failed == \E i \in 1..Len(requests) : ~requests[i].ok

\* C8: once a request to the API has failed, that request was the last one
\* issued and was issued once, the fetcher has returned no table, and no
\* output file is written.
FailurePropagates ==
    Failed
        => /\ pc = "raised"
           /\ df = None
           /\ outfile = None
           /\ ~requests[Len(requests)].ok
           /\ \A i \in 1..(Len(requests) - 1) : requests[i].ok
           /\ \A i, j \in 1..Len(requests) :
                (requests[i].kind = requests[j].kind /\ requests[i].page = requests[j].page)
                    => i = j

FailedMidScan ==
    /\ pc = "raised"
    /\ Len(requests) = 3
    /\ Len(records) = 2

\* C9: the rows of fetch_issues are a subsequence of the collaborator's
\* sequence: each row is the record of a true issue of the sequence, and the
\* rows are in the order of their entries, so that no entry gives two rows.
RowsAreSubsequence ==
    IssuesReturned
        => /\ \A i \in 1..Len(Rows) :
                \E j \in TrueIssues : Rows[i] = IssueRecord(issues[j])
           /\ \A i, k \in 1..Len(Rows) :
                i < k => Pos(Rows[i].id) < Pos(Rows[k].id)

SubsequenceUnderCap ==
    /\ IssuesReturned
    /\ max_issues = Some(3)
    /\ Len(issues) = 3
    /\ issues[2].pull_request # None
    /\ Len(Rows) = 2
    /\ Rows[1].id = issues[1].id
    /\ Rows[2].id = issues[3].id

====
